---- MODULE Spec2Model ----
(***************************************************************************)
(* A model of perkan's backend (src/app.py): the board normalizer, the     *)
(* board merger, the entity operations of the HTTP API and the board store *)
(* (DATA_FILE, its .tmp sibling and the process-wide lock).                *)
(*                                                                         *)
(* Encoding of JSON values.                                                *)
(*   - a string is a TLA+ string; None (Python None, JSON null, an absent  *)
(*     key, or any falsy non-string) and Num (a truthy non-string such as  *)
(*     the number 5) are two reserved strings;                             *)
(*   - an object is a record; a value that is not an object where one is   *)
(*     expected is NonDict;                                                *)
(*   - a list is a sequence; a value that is not a list where one is       *)
(*     expected is NotAList;                                               *)
(*   - a card without a 'project' key has project = None;                  *)
(*   - 'hidden' is kept as a boolean.                                      *)
(***************************************************************************)
EXTENDS Integers, Sequences, FiniteSets, TLC

VARIABLES
    file,        \* content of DATA_FILE: a sequence of chunks of JSON text
    tmp,         \* content of DATA_FILE + '.tmp', or NoFile
    lock,        \* holder of _lock (a request), or 0
    req,         \* per request thread: its position and its local board
    order,       \* history: the requests in the order their write reached DATA_FILE
    nextUuid,    \* uuid4() is modelled as a counter of fresh values
    explicit,    \* history: ids of the cards that were given an explicit color
    last,        \* history: the request handled last and what it answered
    requests,    \* history: how many requests have been handled
    raw,         \* input of the normalizer / 'existing' of the merger
    incoming,    \* 'incoming' of the merger
    out,         \* result of the function under study
    phase        \* position of the function-level specifications

vars == <<file, tmp, lock, req, order, nextUuid, explicit, last, requests,
          raw, incoming, out, phase>>

-----------------------------------------------------------------------------
(* Values *)

None == "<None>"
Num == "<5>"
NonDict == [nondict |-> TRUE]
NotAList == <<[notalist |-> TRUE]>>

IsDict(x) == "nondict" \notin DOMAIN x
IsList(x) == x # NotAList
\* Python truthiness of a scalar: None and '' are falsy.
Truthy(v) == v \notin {None, ""}
\* str(v)
Str(v) == IF v = Num THEN "5" ELSE v
\* v.strip(), on the strings of the model: the padded ones and the blank one.
Strip(s) ==
    CASE s = " " -> ""
      [] s = " a" -> "a"
      [] s = "a " -> "a"
      [] s = " b" -> "b"
      [] s = "b " -> "b"
      [] s = " t " -> "t"
      [] s = " u " -> "u"
      [] OTHER -> s
\* str(v or '').strip()
StrOrEmpty(v) == IF Truthy(v) THEN Strip(Str(v)) ELSE ""
\* (v or '').strip(): raises AttributeError on a truthy non-string.
StripRaises(v) == Truthy(v) /\ v = Num
OrEmptyStrip(v) == IF Truthy(v) THEN Strip(v) ELSE ""

Uuid(n) == "uuid-" \o ToString(n)

DEFAULT_CARD_COLOR == "#5b2e8a"
DEFAULT_COLUMN_COLOR == "#9aa0a6"

DEFAULT_BOARD ==
    [columns |->
        << [id |-> "todo", title |-> "To Do", cards |-> <<>>, color |-> "#1f77b4",
            hidden |-> FALSE],
           [id |-> "inprogress", title |-> "In Progress", cards |-> <<>>,
            color |-> "#ff8c00", hidden |-> FALSE],
           [id |-> "blocked", title |-> "Blocked", cards |-> <<>>, color |-> "#d62728",
            hidden |-> FALSE],
           [id |-> "done", title |-> "Done", cards |-> <<>>, color |-> "#2ca02c",
            hidden |-> FALSE] >>,
     projects |-> <<>>]

\* Python list.insert(i, x) for i >= 0, and del list[i] (i counted from 0).
InsertAt(s, i, x) ==
    IF i >= Len(s) THEN Append(s, x)
    ELSE SubSeq(s, 1, i) \o <<x>> \o SubSeq(s, i + 1, Len(s))
RemoveAt(s, i) == SubSeq(s, 1, i) \o SubSeq(s, i + 2, Len(s))
Max(a, b) == IF a >= b THEN a ELSE b
Min(a, b) == IF a <= b THEN a ELSE b
CardIdsOf(col) == {col.cards[i].id : i \in 1..Len(col.cards)}

-----------------------------------------------------------------------------
(* Board Normalizer *)

\* s or default
OrDefault(s, default) == IF s # "" THEN s ELSE default

\* One entry of _clean_links, for an item that is kept.
CleanLink(item) ==
    [text |-> OrDefault(StrOrEmpty(item.text), StrOrEmpty(item.url)),
     url |-> StrOrEmpty(item.url)]
KeptLinks(raw_links) ==
    SelectSeq(raw_links, LAMBDA item : IsDict(item) /\ StrOrEmpty(item.url) # "")
\* _clean_links
CleanLinks(raw_links) ==
    IF ~IsList(raw_links) THEN <<>>
    ELSE [i \in 1..Len(KeptLinks(raw_links)) |-> CleanLink(KeptLinks(raw_links)[i])]

\* The card _sanitize_card builds from an object.
SanitizedCard(card, n) ==
    [id |-> IF Truthy(card.id) THEN Str(card.id) ELSE Uuid(n),
     title |-> OrDefault(StrOrEmpty(card.title), "Untitled"),
     description |-> IF Truthy(card.description) THEN Str(card.description) ELSE "",
     links |-> CleanLinks(card.links),
     project |-> IF OrEmptyStrip(card.project) # "" THEN OrEmptyStrip(card.project)
                 ELSE None,
     color |-> IF Truthy(card.color) THEN card.color ELSE DEFAULT_CARD_COLOR]

\* _sanitize_card: [raised, ok, card, n]; ok = FALSE is the None it returns for a
\* non-object, raised = TRUE the AttributeError of .strip() on a non-string.
SanitizeCard(card, n) ==
    IF ~IsDict(card) THEN [raised |-> FALSE, ok |-> FALSE, card |-> NonDict, n |-> n]
    ELSE IF StripRaises(card.project)
    THEN [raised |-> TRUE, ok |-> FALSE, card |-> NonDict, n |-> n]
    ELSE [raised |-> FALSE, ok |-> TRUE, card |-> SanitizedCard(card, n),
          n |-> IF Truthy(card.id) THEN n ELSE n + 1]

\* The loop over cards_payload of _normalize_board; s is the sanitized head of
\* the payload. A colliding id is regenerated.
RECURSIVE NormalizeCards(_, _, _, _)
KeepCard(rest, acc, seen_ids, s) ==
    IF s.raised THEN [raised |-> TRUE, cards |-> acc, n |-> s.n]
    ELSE IF ~s.ok THEN NormalizeCards(rest, acc, seen_ids, s.n)
    ELSE IF s.card.id \in seen_ids
    THEN NormalizeCards(rest, Append(acc, [s.card EXCEPT !.id = Uuid(s.n)]),
                        seen_ids \cup {Uuid(s.n)}, s.n + 1)
    ELSE NormalizeCards(rest, Append(acc, s.card), seen_ids \cup {s.card.id}, s.n)
NormalizeCards(payload, acc, seen_ids, n) ==
    IF payload = <<>> THEN [raised |-> FALSE, cards |-> acc, n |-> n]
    ELSE KeepCard(Tail(payload), acc, seen_ids, SanitizeCard(Head(payload), n))

\* The column _normalize_board builds from an object, cards being its cards.
NormalizedColumn(col, n, cards) ==
    [id |-> IF Truthy(col.id) THEN col.id ELSE Uuid(n),
     title |-> OrDefault(StrOrEmpty(col.title), "Untitled"),
     color |-> IF Truthy(col.color) THEN col.color ELSE DEFAULT_COLUMN_COLOR,
     hidden |-> col.hidden,
     cards |-> cards]

\* The loop over data['columns']; cs is what the loop over the cards of the
\* head column gave.
RECURSIVE NormalizeColumns(_, _, _)
KeepColumn(rest, acc, col, n, cs) ==
    IF cs.raised THEN [raised |-> TRUE, columns |-> acc, n |-> n]
    ELSE NormalizeColumns(rest, Append(acc, NormalizedColumn(col, n, cs.cards)), cs.n)
NormalizeColumn(rest, acc, col, n) ==
    IF ~IsDict(col) THEN NormalizeColumns(rest, acc, n)
    ELSE KeepColumn(rest, acc, col, n,
                    NormalizeCards(IF IsList(col.cards) THEN col.cards ELSE <<>>,
                                   <<>>, {}, IF Truthy(col.id) THEN n ELSE n + 1))
NormalizeColumns(cols, acc, n) ==
    IF cols = <<>> THEN [raised |-> FALSE, columns |-> acc, n |-> n]
    ELSE NormalizeColumn(Tail(cols), acc, Head(cols), n)

\* (mutant) the name is remembered as it was given, before .strip().
SeenAfterUnstripped(seen_projects, proj, name) == seen_projects \cup {proj.name}
\* The names a project entry adds to seen_projects once it is kept.
SeenAfter(seen_projects, proj, name) == seen_projects \cup {name}

\* The loop over data['projects']: the first entry of a name wins.
RECURSIVE NormalizeProjects(_, _, _)
KeepProject(rest, acc, seen_projects, proj, name) ==
    IF name = "" \/ name \in seen_projects
    THEN NormalizeProjects(rest, acc, seen_projects)
    ELSE NormalizeProjects(rest,
            Append(acc, [name |-> name,
                         color |-> IF Truthy(proj.color) THEN proj.color
                                   ELSE DEFAULT_CARD_COLOR]),
            SeenAfter(seen_projects, proj, name))
NormalizeProject(rest, acc, seen_projects, proj) ==
    IF ~IsDict(proj) THEN NormalizeProjects(rest, acc, seen_projects)
    ELSE IF StripRaises(proj.name) THEN [raised |-> TRUE, projects |-> acc]
    ELSE KeepProject(rest, acc, seen_projects, proj, OrEmptyStrip(proj.name))
NormalizeProjects(projs, acc, seen_projects) ==
    IF projs = <<>> THEN [raised |-> FALSE, projects |-> acc]
    ELSE NormalizeProject(Tail(projs), acc, seen_projects, Head(projs))

\* data['columns'] and data['projects'] once the first lines of
\* _normalize_board have put lists where there were none.
Normalized(cols, projs) ==
    [raised |-> cols.raised \/ projs.raised,
     board |-> [columns |-> cols.columns, projects |-> projs.projects],
     n |-> cols.n]

\* _normalize_board: [raised, board, n].
NormalizeBoard(data, n) ==
    Normalized(NormalizeColumns(IF IsDict(data) /\ IsList(data.columns)
                                THEN data.columns ELSE <<>>, <<>>, n),
               NormalizeProjects(IF IsDict(data) /\ IsList(data.projects)
                                 THEN data.projects ELSE <<>>, <<>>, {}))

-----------------------------------------------------------------------------
(* Board Merger *)

\* Index of the first, and of the last, column with this id (0 when there is
\* none). The last is what columns_lookup gives: a dict comprehension keeps the
\* last column of an id, and a column appended later replaces the entry.
FirstIndex(cols, id) ==
    IF \E i \in 1..Len(cols) : cols[i].id = id
    THEN CHOOSE i \in 1..Len(cols) :
            cols[i].id = id /\ \A j \in 1..(i - 1) : cols[j].id # id
    ELSE 0
LastIndex(cols, id) ==
    IF \E i \in 1..Len(cols) : cols[i].id = id
    THEN CHOOSE i \in 1..Len(cols) :
            cols[i].id = id /\ \A j \in (i + 1)..Len(cols) : cols[j].id # id
    ELSE 0

\* (mutant) an incoming card whose id is already in the column is dropped.
RECURSIVE MergeCardsDropping(_, _, _, _)
MergeCardDropping(rest, target_cards, existing_ids, s) ==
    IF s.card.id \in existing_ids
    THEN MergeCardsDropping(rest, target_cards, existing_ids, s.n)
    ELSE MergeCardsDropping(rest, Append(target_cards, s.card),
                            existing_ids \cup {s.card.id}, s.n)
MergeCardsDropping(inc_cards, target_cards, existing_ids, n) ==
    IF inc_cards = <<>> THEN [cards |-> target_cards, n |-> n]
    ELSE MergeCardDropping(Tail(inc_cards), target_cards, existing_ids,
                           SanitizeCard(Head(inc_cards), n))

\* The loop over an incoming column's cards, appended to the matched column;
\* s is the sanitized head of the cards.
RECURSIVE MergeCards(_, _, _, _)
MergeCard(rest, target_cards, existing_ids, s) ==
    IF s.card.id \in existing_ids
    THEN MergeCards(rest, Append(target_cards, [s.card EXCEPT !.id = Uuid(s.n)]),
                    existing_ids \cup {Uuid(s.n)}, s.n + 1)
    ELSE MergeCards(rest, Append(target_cards, s.card),
                    existing_ids \cup {s.card.id}, s.n)
MergeCards(inc_cards, target_cards, existing_ids, n) ==
    IF inc_cards = <<>> THEN [cards |-> target_cards, n |-> n]
    ELSE MergeCard(Tail(inc_cards), target_cards, existing_ids,
                   SanitizeCard(Head(inc_cards), n))

\* The loop over the incoming columns; t is the matched column (0: none) and m
\* what the loop over the incoming column's cards gave.
RECURSIVE MergeColumns(_, _, _)
MergedInto(rest, cols, inc_col, t, m) ==
    MergeColumns(rest,
        [cols EXCEPT ![t] = [id |-> cols[t].id, title |-> inc_col.title,
                             color |-> inc_col.color, hidden |-> inc_col.hidden,
                             cards |-> m.cards]],
        m.n)
MergeColumn(rest, cols, n, inc_col, t) ==
    IF t # 0
    THEN MergedInto(rest, cols, inc_col, t,
                    MergeCards(inc_col.cards, cols[t].cards, CardIdsOf(cols[t]), n))
    ELSE MergeColumns(rest, Append(cols, inc_col), n)
MergeColumns(inc_cols, cols, n) ==
    IF inc_cols = <<>> THEN [columns |-> cols, n |-> n]
    ELSE MergeColumn(Tail(inc_cols), cols, n, Head(inc_cols),
                     LastIndex(cols, Head(inc_cols).id))

\* The loop over the incoming projects; hit is where project_lookup finds the
\* name (0: nowhere).
NameIndex(projects, name) ==
    IF \E i \in 1..Len(projects) : projects[i].name = name
    THEN CHOOSE i \in 1..Len(projects) :
            projects[i].name = name /\ \A j \in (i + 1)..Len(projects) :
                                           projects[j].name # name
    ELSE 0
RECURSIVE MergeProjects(_, _)
MergeProject(rest, projects, proj, hit) ==
    IF ~Truthy(proj.name) THEN MergeProjects(rest, projects)
    ELSE IF hit # 0
    THEN MergeProjects(rest, IF Truthy(proj.color)
                             THEN [projects EXCEPT ![hit].color = proj.color]
                             ELSE projects)
    ELSE MergeProjects(rest,
            Append(projects, [name |-> proj.name,
                              color |-> IF Truthy(proj.color) THEN proj.color
                                        ELSE DEFAULT_CARD_COLOR]))
MergeProjects(inc_projs, projects) ==
    IF inc_projs = <<>> THEN projects
    ELSE MergeProject(Tail(inc_projs), projects, Head(inc_projs),
                      NameIndex(projects, Head(inc_projs).name))

\* _merge_boards once both boards are normalized: the two loops, then
\* _normalize_board on the result.
MergeNormalized(base, inc, n) ==
    IF base.raised \/ inc.raised
    THEN [raised |-> TRUE, board |-> base.board, n |-> n]
    ELSE \* return _normalize_board(base)
         NormalizeBoard(
            [columns |-> MergeColumns(inc.board.columns, base.board.columns, inc.n).columns,
             projects |-> MergeProjects(inc.board.projects, base.board.projects)],
            MergeColumns(inc.board.columns, base.board.columns, inc.n).n)

\* _merge_boards: [raised, board, n].
MergeBoards(existing, incoming_raw, n) ==
    MergeNormalized(NormalizeBoard(existing, n),
                    NormalizeBoard(incoming_raw, NormalizeBoard(existing, n).n), n)

-----------------------------------------------------------------------------
(* Entity Operations: each handler as a function of the loaded board and the  *)
(* request. It returns the status it answers and the board it hands to        *)
(* _save_data (which it calls only when the status is below 400).             *)
(* An optional integer or boolean of a request is <<>> (None) or <<v>>.       *)

NoProject == [name |-> None, color |-> None]

\* Where the scan of update_card / delete_card finds a card: the first column
\* holding it, counted from 1 (0: not found).
CardColumn(board, card_id) ==
    IF \E i \in 1..Len(board.columns) : card_id \in CardIdsOf(board.columns[i])
    THEN CHOOSE i \in 1..Len(board.columns) :
            /\ card_id \in CardIdsOf(board.columns[i])
            /\ \A j \in 1..(i - 1) : card_id \notin CardIdsOf(board.columns[j])
    ELSE 0

\* _find_project: the first project of that name, or NoProject.
ProjectIndex(projects, name) ==
    IF \E i \in 1..Len(projects) : projects[i].name = name
    THEN CHOOSE i \in 1..Len(projects) :
            projects[i].name = name /\ \A j \in 1..(i - 1) : projects[j].name # name
    ELSE 0
FindProject(board, project_name) ==
    IF ~Truthy(project_name) \/ ProjectIndex(board.projects, project_name) = 0
    THEN NoProject
    ELSE board.projects[ProjectIndex(board.projects, project_name)]

\* _generate_unique_color: a random color that no project has, or, when 32
\* draws all hit a color in use, any random color.
GeneratedColors(board) ==
    {c \in {"#0000a1", "#0000b2"} :
        \A i \in 1..Len(board.projects) : board.projects[i].color # c}
    \cup {"#0000a1", "#0000b2"}

\* _ensure_project for a name that is there, at index i.
EnsureExisting(board, i) ==
    IF Truthy(board.projects[i].color)
    THEN [board |-> board, project |-> board.projects[i]]
    ELSE [board |-> [board EXCEPT !.projects[i].color = DEFAULT_CARD_COLOR],
          project |-> [board.projects[i] EXCEPT !.color = DEFAULT_CARD_COLOR]]
\* _ensure_project, generated being what _generate_unique_color returns.
EnsureProject(board, project_name, generated) ==
    IF OrEmptyStrip(project_name) = "" THEN [board |-> board, project |-> NoProject]
    ELSE IF ProjectIndex(board.projects, OrEmptyStrip(project_name)) = 0
    THEN [board |-> [board EXCEPT !.projects =
                        Append(@, [name |-> OrEmptyStrip(project_name),
                                   color |-> generated])],
          project |-> [name |-> OrEmptyStrip(project_name), color |-> generated]]
    ELSE EnsureExisting(board, ProjectIndex(board.projects, OrEmptyStrip(project_name)))

\* What _apply_project_color_to_cards makes of a card.
ColoredCard(card, project_name, color) ==
    IF card.project = project_name
    THEN [card EXCEPT !.color = IF Truthy(color) THEN color ELSE DEFAULT_CARD_COLOR]
    ELSE card
\* _apply_project_color_to_cards
ApplyProjectColorToCards(board, project_name, color) ==
    IF ~Truthy(project_name) THEN board
    ELSE [board EXCEPT !.columns =
            [i \in 1..Len(board.columns) |->
                [board.columns[i] EXCEPT !.cards =
                    [j \in 1..Len(board.columns[i].cards) |->
                        ColoredCard(board.columns[i].cards[j], project_name, color)]]]]

\* (mutant) the card keeps the name of the removed project.
UnreferencedKeepingName(card) == [card EXCEPT !.color = DEFAULT_CARD_COLOR]
\* What _update_project_references leaves of a card of the removed project.
Unreferenced(card) == [card EXCEPT !.project = None, !.color = DEFAULT_CARD_COLOR]

\* What _update_project_references makes of a card.
ReferringCard(card, old_name, new_name, project_color) ==
    IF card.project # old_name THEN card
    ELSE IF Truthy(new_name)
    THEN [card EXCEPT !.project = new_name,
                      !.color = IF Truthy(project_color) THEN project_color ELSE @]
    ELSE Unreferenced(card)
\* _update_project_references
UpdateProjectReferences(board, old_name, new_name, project_color) ==
    [board EXCEPT !.columns =
        [i \in 1..Len(board.columns) |->
            [board.columns[i] EXCEPT !.cards =
                [j \in 1..Len(board.columns[i].cards) |->
                    ReferringCard(board.columns[i].cards[j], old_name, new_name,
                                  project_color)]]]]

\* The card create_card builds; project_details is what _ensure_project gave.
NewCard(d, n, project_name, project_details) ==
    [id |-> Uuid(n), title |-> d.title, description |-> d.description,
     links |-> CleanLinks(d.links),
     project |-> IF project_name # "" THEN project_name ELSE None,
     color |-> IF project_name # "" /\ Truthy(project_details.color)
               THEN project_details.color
               ELSE IF project_details = NoProject /\ Truthy(d.color) THEN d.color
               ELSE DEFAULT_CARD_COLOR]

\* The loop of create_card over the columns, once _ensure_project has given
\* ens; the board of a 404 is the one the handler leaves behind unsaved.
CreateCardWith(d, n, ens) ==
    IF FirstIndex(ens.board.columns, d.column) = 0
    THEN [status |-> 404, board |-> ens.board]
    ELSE [status |-> 201,
          board |-> [ens.board EXCEPT
                        !.columns[FirstIndex(ens.board.columns, d.column)].cards =
                            Append(@, NewCard(d, n, OrEmptyStrip(d.project),
                                              ens.project))]]

\* create_card; d = [title, description, column, color, project, links].
CreateCard(board, d, n, generated) ==
    IF ~Truthy(d.title) THEN [status |-> 400, board |-> board]
    ELSE CreateCardWith(d, n, EnsureProject(board, d.project, generated))

\* Where update_card puts the card back, counted from 0.
PlaceIndex(d, original_position, length) ==
    IF Truthy(d.column)
    THEN IF d.position = <<>> \/ d.position[1] >= length THEN length
         ELSE Max(0, d.position[1])
    ELSE Min(original_position, length)

\* "update fields" of update_card: title, description, color.
WithFields(card, d) ==
    [card EXCEPT !.title = IF d.title # None THEN d.title ELSE @,
                 !.description = IF d.description # None THEN d.description ELSE @,
                 !.color = IF d.color # None THEN d.color ELSE @]
\* ... then the project of the payload,
WithProject(card, d, project_details) ==
    IF d.project = None THEN card
    ELSE IF OrEmptyStrip(d.project) # ""
    THEN [card EXCEPT !.project = OrEmptyStrip(d.project),
                      !.color = IF Truthy(project_details.color)
                                THEN project_details.color ELSE @]
    ELSE [card EXCEPT !.project = None,
                      !.color = IF d.color = None THEN DEFAULT_CARD_COLOR ELSE @]
\* ... then the links (NotAList stands for a request without links),
WithLinks(card, d) ==
    IF IsList(d.links) THEN [card EXCEPT !.links = CleanLinks(d.links)] ELSE card
\* ... then the color of the project the card names, when _find_project has it.
WithProjectColor(card, board) ==
    IF Truthy(card.project) /\ Truthy(FindProject(board, card.project).color)
    THEN [card EXCEPT !.color = FindProject(board, card.project).color] ELSE card

UpdatedCard(card, d, ens) ==
    WithProjectColor(WithLinks(WithProject(WithFields(card, d), d, ens.project), d),
                     ens.board)

\* "place into target column" of update_card, dest being the column of
\* destination_column_id (0: none).
PlaceCard(board, dest, original_position, d, card) ==
    IF Truthy(d.column) /\ dest = 0 THEN [status |-> 404, board |-> board]
    ELSE [status |-> 200,
          board |-> [board EXCEPT !.columns[IF dest = 0 THEN 1 ELSE dest].cards =
                        InsertAt(@, PlaceIndex(d, original_position, Len(@)), card)]]

\* update_card once the card is out of its column; ens is what the project of
\* the payload gave.
UpdateTaken(ens, card, original_column_id, original_position, d) ==
    PlaceCard(ens.board,
              FirstIndex(ens.board.columns,
                         IF Truthy(d.column) THEN d.column ELSE original_column_id),
              original_position, d, UpdatedCard(card, d, ens))

\* The project of the payload of update_card: _ensure_project runs for a name.
EnsureFor(board, d, generated) ==
    IF d.project # None THEN EnsureProject(board, d.project, generated)
    ELSE [board |-> board, project |-> NoProject]

\* (mutant) update_card leaves the card where it found it as well.
UpdateCardAtKeeping(board, c, i, d, generated) ==
    UpdateTaken(EnsureFor(board, d, generated),
                board.columns[c].cards[i], board.columns[c].id, i - 1, d)
\* update_card on the card at index i of column c.
UpdateCardAt(board, c, i, d, generated) ==
    UpdateTaken(EnsureFor([board EXCEPT !.columns[c].cards = RemoveAt(@, i - 1)],
                          d, generated),
                board.columns[c].cards[i], board.columns[c].id, i - 1, d)

\* update_card; d = [column, position, title, description, color, links, project].
UpdateCard(board, card_id, d, generated) ==
    IF CardColumn(board, card_id) = 0 THEN [status |-> 404, board |-> board]
    ELSE UpdateCardAt(board, CardColumn(board, card_id),
                      FirstIndex(board.columns[CardColumn(board, card_id)].cards, card_id),
                      d, generated)

\* delete_card
DeleteCard(board, card_id) ==
    IF CardColumn(board, card_id) = 0 THEN [status |-> 404, board |-> board]
    ELSE [status |-> 200,
          board |-> [board EXCEPT !.columns[CardColumn(board, card_id)].cards =
                        RemoveAt(@, FirstIndex(@, card_id) - 1)]]

\* _slug of create_column, on the titles of the model.
Slug(title, n) ==
    CASE title = "To Do" -> "to-do"
      [] title = "Done" -> "done"
      [] title = "QA" -> "qa"
      [] title = "!!" -> Uuid(n)
      [] OTHER -> title

\* The column create_column builds; a slug that is taken gets a suffix.
NewColumn(board, d, slug, n) ==
    [id |-> IF FirstIndex(board.columns, slug) # 0 THEN slug \o "-" \o Uuid(n) ELSE slug,
     title |-> d.title, cards |-> <<>>,
     color |-> IF Truthy(d.color) THEN d.color ELSE DEFAULT_COLUMN_COLOR,
     hidden |-> d.hidden = <<TRUE>>]
CreateColumnWith(board, d, col) ==
    [board EXCEPT !.columns = IF d.position = <<>> \/ d.position[1] >= Len(@)
                              THEN Append(@, col)
                              ELSE InsertAt(@, Max(0, d.position[1]), col)]

\* create_column; d = [title, position, color, hidden]. n says whether the
\* handler drew an id.
CreateColumn(board, d, n) ==
    IF ~Truthy(d.title) THEN [status |-> 400, board |-> board, n |-> n]
    ELSE [status |-> 201,
          board |-> CreateColumnWith(board, d, NewColumn(board, d, Slug(d.title, n), n)),
          n |-> IF d.title = "!!" \/ FirstIndex(board.columns, Slug(d.title, n)) # 0
                THEN n + 1 ELSE n]

UpdatedColumn(col, d) ==
    [col EXCEPT !.title = IF d.title # None THEN d.title ELSE @,
                !.color = IF d.color # None THEN d.color ELSE @,
                !.hidden = IF d.hidden # <<>> THEN d.hidden[1] ELSE @]
\* board['columns'].pop(idx), then the insert at the clamped position.
Reinsert(seq, idx, position, item) ==
    InsertAt(RemoveAt(seq, idx - 1), Min(Max(0, position), Len(seq) - 1), item)
\* update_column; d = [title, position, color, hidden].
UpdateColumn(board, col_id, d) ==
    IF FirstIndex(board.columns, col_id) = 0 THEN [status |-> 404, board |-> board]
    ELSE [status |-> 200,
          board |-> [board EXCEPT !.columns =
                        IF d.position = <<>>
                        THEN [@ EXCEPT ![FirstIndex(board.columns, col_id)] =
                                            UpdatedColumn(@, d)]
                        ELSE Reinsert(@, FirstIndex(@, col_id), d.position[1],
                                      UpdatedColumn(@[FirstIndex(@, col_id)], d))]]

\* The column delete_column moves the cards to, looked up once the deleted
\* column is out of the list (0: none).
MoveTarget(rest, move_to) == IF Truthy(move_to) THEN FirstIndex(rest, move_to) ELSE 0

\* (mutant) the moved cards are put in front of the target's cards.
ExtendInFront(target_cards, moved_cards) == moved_cards \o target_cards
\* target['cards'].extend(col.get('cards', []))
Extend(target_cards, moved_cards) == target_cards \o moved_cards

MoveCards(rest, target, moved_cards) ==
    IF target = 0 THEN rest ELSE [rest EXCEPT ![target].cards = Extend(@, moved_cards)]
\* delete_column
DeleteColumn(board, col_id, move_to) ==
    IF FirstIndex(board.columns, col_id) = 0 THEN [status |-> 404, board |-> board]
    ELSE [status |-> 200,
          board |-> [board EXCEPT !.columns =
                        MoveCards(RemoveAt(@, FirstIndex(@, col_id) - 1),
                                  MoveTarget(RemoveAt(@, FirstIndex(@, col_id) - 1), move_to),
                                  @[FirstIndex(@, col_id)].cards)]]

\* (mutant) create_project takes no name for taken.
NameNeverTaken(projects, name) == FALSE
\* The uniqueness test of create_project.
NameTaken(projects, name) == \E i \in 1..Len(projects) : projects[i].name = name

CreateProjectWith(board, d, project) ==
    [board EXCEPT !.projects = IF d.position = <<>> \/ d.position[1] >= Len(@)
                               THEN Append(@, project)
                               ELSE InsertAt(@, Max(0, d.position[1]), project)]
\* create_project; d = [name, color, position].
CreateProject(board, d, generated) ==
    IF OrEmptyStrip(d.name) = "" THEN [status |-> 400, board |-> board]
    ELSE IF NameTaken(board.projects, OrEmptyStrip(d.name))
    THEN [status |-> 400, board |-> board]
    ELSE [status |-> 201,
          board |-> CreateProjectWith(board, d,
                       [name |-> OrEmptyStrip(d.name),
                        color |-> IF Truthy(d.color) THEN d.color ELSE generated])]

\* (mutant) a color change that leaves the cards as they are.
RecolorNoCards(board, project_name, color) == board
\* The cascade of a color change in update_project.
RecolorCards(board, project_name, color) ==
    ApplyProjectColorToCards(board, project_name, color)

\* The three parts of update_project on the project at index k (from 1).
Renamed(board, k, d) ==
    IF d.name # None /\ Strip(d.name) # board.projects[k].name
    THEN UpdateProjectReferences([board EXCEPT !.projects[k].name = Strip(d.name)],
                                 board.projects[k].name, Strip(d.name), board.projects[k].color)
    ELSE board
Recolored(board, k, d) ==
    IF d.color # None
    THEN RecolorCards([board EXCEPT !.projects[k].color = d.color],
                      board.projects[k].name, d.color)
    ELSE board
Moved(board, k, d) ==
    IF d.position # <<>>
    THEN [board EXCEPT !.projects = Reinsert(@, k, d.position[1], @[k])]
    ELSE board

\* Whether another project than the one at index k has the name.
OtherHasName(projects, k, name) ==
    \E i \in 1..Len(projects) : i # k /\ projects[i].name = name

\* update_project; project_idx counted from 0; d = [name, color, position].
UpdateProject(board, project_idx, d) ==
    IF project_idx < 0 \/ project_idx >= Len(board.projects)
    THEN [status |-> 404, board |-> board]
    ELSE IF d.name # None /\ Strip(d.name) = "" THEN [status |-> 400, board |-> board]
    ELSE IF d.name # None /\ OtherHasName(board.projects, project_idx + 1, Strip(d.name))
    THEN [status |-> 400, board |-> board]
    ELSE [status |-> 200,
          board |-> Moved(Recolored(Renamed(board, project_idx + 1, d),
                                    project_idx + 1, d),
                          project_idx + 1, d)]

\* delete_project; project_idx counted from 0.
DeleteProject(board, project_idx) ==
    IF project_idx < 0 \/ project_idx >= Len(board.projects)
    THEN [status |-> 404, board |-> board]
    ELSE [status |-> 200,
          board |-> UpdateProjectReferences(
                        [board EXCEPT !.projects = RemoveAt(@, project_idx)],
                        board.projects[project_idx + 1].name, None, None)]

-----------------------------------------------------------------------------
(* Board Store: the JSON text of a board, chunk by chunk *)

NoFile == <<[k |-> "absent"]>>

\* json.dump(data, f): the text of a board, one chunk per column and per project
\* between the opening and the closing brace.
Dump(board) ==
    <<[k |-> "open"]>>
    \o [i \in 1..Len(board.columns) |-> [k |-> "column", v |-> board.columns[i]]]
    \o [i \in 1..Len(board.projects) |-> [k |-> "project", v |-> board.projects[i]]]
    \o <<[k |-> "close"]>>

ChunkValues(text, kind) ==
    LET sel == SelectSeq(text, LAMBDA c : c.k = kind)
    IN [i \in 1..Len(sel) |-> sel[i].v]

\* json.load(f): a text that does not run from the opening to the closing brace
\* raises JSONDecodeError.
Parse(text) ==
    IF Len(text) >= 2 /\ text[1].k = "open" /\ text[Len(text)].k = "close"
    THEN [ok |-> TRUE, data |-> [columns |-> ChunkValues(text, "column"),
                                 projects |-> ChunkValues(text, "project")]]
    ELSE [ok |-> FALSE, data |-> NonDict]

-----------------------------------------------------------------------------
(* The variables a specification does not use keep these values. *)

StoreIdle ==
    /\ file = Dump(DEFAULT_BOARD) /\ tmp = NoFile /\ lock = 0
    /\ req = <<>> /\ order = <<>> /\ nextUuid = 1 /\ explicit = {} /\ last = [op |-> "none", status |-> 0]
    /\ requests = 0
StoreUnchanged ==
    UNCHANGED <<file, tmp, lock, req, order, nextUuid, explicit, last, requests>>
PureIdle == raw = NonDict /\ incoming = NonDict /\ out = <<>>
PureUnchanged == UNCHANGED <<raw, incoming, out, phase>>

-----------------------------------------------------------------------------
(* Spec and SpecMoves: the requests of the API handled one after the other,    *)
(* each one whole: _load_data, the handler, _save_data. The two draw the       *)
(* requests from different sets: Spec varies projects and colors, SpecMoves    *)
(* columns and positions.                                                      *)

MaxRequests == 3

\* _load_data: json.load, then _normalize_board.
Loaded == NormalizeBoard(Parse(file).data, nextUuid)
\* The board a later _load_data returns.
Board == Loaded.board

ExplicitColor == "#00ff00"

\* A request names a card, a column or a project of the board, or one that
\* is not there. Each specification draws the payloads from sets of its own.
AllCardIds(board) == UNION {CardIdsOf(board.columns[i]) : i \in 1..Len(board.columns)}
CreateCardInputs ==
    IF phase = "errors"
    THEN [title : {None, "t"}, description : {""}, column : {"todo", "nocol"},
          color : {None}, project : {None, " a"}, links : {NotAList}]
    ELSE IF phase = "entities"
    THEN [title : {None, "t"}, description : {""}, column : {"todo", "nocol"},
          color : {None, ExplicitColor}, project : {None, " a", "b"},
          links : {NotAList}]
    ELSE [title : {"t"}, description : {""}, column : {"todo", "done", "nocol"},
          color : {None}, project : {None}, links : {NotAList}]
UpdateCardInputs ==
    IF phase = "errors"
    THEN [column : {None, "nocol"}, position : {<<>>}, title : {None},
          description : {None}, color : {None}, links : {NotAList},
          project : {None, "b"}]
    ELSE IF phase = "entities"
    THEN [column : {None, "done", "nocol"}, position : {<<>>},
          title : {None}, description : {None}, color : {None, ExplicitColor},
          links : {NotAList}, project : {None, "", " a", "b"}]
    ELSE [column : {None, "todo", "done", "nocol"},
          position : {<<>>, <<-1>>, <<0>>, <<1>>},
          title : {None, "t2"}, description : {None}, color : {None},
          links : {NotAList}, project : {None, "a"}]
CreateColumnInputs ==
    IF phase # "moves"
    THEN [title : {None, "QA"}, position : {<<>>}, color : {None}, hidden : {<<>>}]
    ELSE [title : {None, "Done", "QA"}, position : {<<>>, <<0>>}, color : {None},
          hidden : {<<>>}]
UpdateColumnInputs ==
    IF phase = "errors"
    THEN [title : {"Later"}, position : {<<>>}, color : {None}, hidden : {<<>>}]
    ELSE IF phase = "entities"
    THEN [title : {None, "Later"}, position : {<<>>}, color : {None}, hidden : {<<>>}]
    ELSE [title : {None}, position : {<<>>, <<0>>, <<1>>}, color : {None},
          hidden : {<<>>, <<TRUE>>}]
ColumnIdInputs(board) ==
    IF phase # "moves" THEN {"todo", "nocol"}
    ELSE {board.columns[i].id : i \in 1..Len(board.columns)} \cup {"nocol"}
CreateProjectInputs ==
    IF phase = "errors"
    THEN [name : {None, " a"}, color : {ExplicitColor}, position : {<<>>}]
    ELSE IF phase = "entities"
    THEN [name : {None, " a", "b"}, color : {None, ExplicitColor},
          position : {<<>>, <<0>>}]
    ELSE [name : {None, "a"}, color : {None}, position : {<<>>}]
UpdateProjectInputs ==
    IF phase = "errors"
    THEN [name : {" ", "a", "b"}, color : {None}, position : {<<>>}]
    ELSE IF phase = "entities"
    THEN [name : {None, " ", "a", "b "}, color : {None, "", ExplicitColor},
          position : {<<>>, <<0>>}]
    ELSE [name : {None, "b"}, color : {None}, position : {<<>>}]

\* The colors _generate_unique_color may return to a handler that appends a
\* project of this name; a handler that appends none does not call it.
ColorDraws(board, project_name) ==
    IF OrEmptyStrip(project_name) # ""
       /\ ProjectIndex(board.projects, OrEmptyStrip(project_name)) = 0
    THEN GeneratedColors(board) ELSE {None}

\* (mutant) every answer goes through _save_data.
ReachesSaveAlways(r) == TRUE
\* The handler gets as far as its call of _save_data: it has not returned an
\* error before.
ReachesSave(r) == r.status < 400

\* The request was answered with r; _save_data ran, start to end, when the
\* handler got as far as calling it. A request answered with an error leaves
\* everything as it was. The history (last) of a delete_column, of a
\* delete_project and of an update_card holds the board the handler loaded;
\* SpecErrors keeps the answer of a failed request as well, with the data file
\* it found and the board the handler left behind.
Answered(r, n, given, done) ==
    /\ file' = IF ReachesSave(r) THEN Dump(r.board) ELSE file
    /\ nextUuid' = IF r.status < 400 THEN n ELSE nextUuid
    /\ explicit' = IF r.status < 400 THEN explicit \cup given ELSE explicit
    /\ last' = IF r.status < 400 THEN done
               ELSE IF phase = "errors"
               THEN [op |-> "error", of |-> done.op, status |-> r.status,
                     file |-> file, board |-> r.board]
               ELSE last
    /\ requests' = IF r.status < 400 THEN requests + 1 ELSE requests
    /\ UNCHANGED <<tmp, lock, req, order>> /\ PureUnchanged

Init == StoreIdle /\ PureIdle /\ phase = "entities"
InitMoves == StoreIdle /\ PureIdle /\ phase = "moves"

CreateCardReq ==
    /\ requests < MaxRequests
    /\ \E L \in {Loaded} :
        \E d \in CreateCardInputs : \E generated \in ColorDraws(L.board, d.project) :
            Answered(CreateCard(L.board, d, L.n, generated), L.n + 1,
                     IF d.color # None THEN {Uuid(L.n)} ELSE {},
                     [op |-> "create_card", status |-> 201])

UpdateCardReq ==
    /\ requests < MaxRequests
    /\ \E L \in {Loaded} :
        \E card_id \in (AllCardIds(L.board) \cup {"nocard"}), d \in UpdateCardInputs :
            \E generated \in ColorDraws(L.board, d.project) :
                Answered(UpdateCard(L.board, card_id, d, generated), L.n,
                         IF d.color # None THEN {card_id} ELSE {},
                         [op |-> "update_card", status |-> 200, card_id |-> card_id,
                          column |-> d.column, position |-> d.position,
                          before |-> L.board])

DeleteCardReq ==
    /\ requests < MaxRequests
    /\ \E L \in {Loaded} :
        \E card_id \in (AllCardIds(L.board) \cup {"nocard"}) :
            Answered(DeleteCard(L.board, card_id), L.n, {},
                     [op |-> "delete_card", status |-> 200])

CreateColumnReq ==
    /\ requests < MaxRequests
    /\ \E L \in {Loaded} : \E d \in CreateColumnInputs :
          \E r \in {CreateColumn(L.board, d, L.n)} :
              Answered(r, r.n, {}, [op |-> "create_column", status |-> 201])

UpdateColumnReq ==
    /\ requests < MaxRequests
    /\ \E L \in {Loaded} :
        \E col_id \in ColumnIdInputs(L.board), d \in UpdateColumnInputs :
            Answered(UpdateColumn(L.board, col_id, d), L.n, {},
                     [op |-> "update_column", status |-> 200])

DeleteColumnReq ==
    /\ requests < MaxRequests
    /\ \E L \in {Loaded} :
        \E col_id \in ColumnIdInputs(L.board),
           move_to \in (IF phase # "moves" THEN {None, "done"}
                        ELSE {None, "todo", "done", "nocol"}) :
            Answered(DeleteColumn(L.board, col_id, move_to), L.n, {},
                     [op |-> "delete_column", status |-> 200,
                      col_id |-> col_id, move_to |-> move_to,
                      before |-> L.board])

CreateProjectReq ==
    /\ requests < MaxRequests
    /\ \E L \in {Loaded} :
        \E d \in CreateProjectInputs :
            \E generated \in (IF Truthy(d.color) THEN {None} ELSE GeneratedColors(L.board)) :
                Answered(CreateProject(L.board, d, generated), L.n, {},
                         [op |-> "create_project", status |-> 201])

UpdateProjectReq ==
    /\ requests < MaxRequests
    /\ \E L \in {Loaded} :
        \E project_idx \in 0..Len(L.board.projects), d \in UpdateProjectInputs :
            Answered(UpdateProject(L.board, project_idx, d), L.n, {},
                     [op |-> "update_project", status |-> 200])

DeleteProjectReq ==
    /\ requests < MaxRequests
    /\ \E L \in {Loaded} :
        \E project_idx \in 0..Len(L.board.projects) :
            Answered(DeleteProject(L.board, project_idx), L.n, {},
                     [op |-> "delete_project", status |-> 200,
                      project_idx |-> project_idx,
                      before |-> L.board])

Next ==
    \/ CreateCardReq \/ UpdateCardReq \/ DeleteCardReq
    \/ CreateColumnReq \/ UpdateColumnReq \/ DeleteColumnReq
    \/ CreateProjectReq \/ UpdateProjectReq \/ DeleteProjectReq

Spec == Init /\ [][Next]_vars
SpecMoves == InitMoves /\ [][Next]_vars

-----------------------------------------------------------------------------
(* SpecConc: the requests of two threads, interleaved at their reads and       *)
(* writes of the data file. A request loads the file and runs its handler in   *)
(* one step (_load_data takes no lock), then goes through _save_data step by   *)
(* step.                                                                       *)

MaxStarted == 2
Threads == {1, 2}


\* The files uploaded to import_board: a board exported before a card was
\* moved and a project renamed, and a small one.
ImportCard(id, project) ==
    [id |-> id, title |-> "t", description |-> None, links |-> NotAList,
     project |-> project, color |-> None]
ImportColumn(id, title, cards) ==
    [id |-> id, title |-> title, color |-> None, hidden |-> FALSE, cards |-> cards]
ImportPayloads ==
    { [columns |-> << ImportColumn("todo", "To Do",
                                   <<ImportCard("x", " a")>>),
                      ImportColumn("done", "Done",
                                   <<ImportCard("x", None)>>) >>,
       projects |-> << [name |-> " a", color |-> None],
                       [name |-> "a ", color |-> "#00ff00"],
                       [name |-> "b", color |-> "#00ff00"] >>],
      [columns |-> << ImportColumn("todo", "To Do",
                                   <<ImportCard("x", "b")>>) >>,
       projects |-> << [name |-> "b", color |-> None] >>] }

InitConc ==
    /\ file = Dump(DEFAULT_BOARD) /\ tmp = NoFile /\ lock = 0
    /\ req = [r \in Threads |-> [pc |-> "idle"]]
    /\ order = <<>> /\ nextUuid = 1 /\ explicit = {} /\ last = [op |-> "none", status |-> 0] /\ requests = 0
    /\ PureIdle /\ phase = "conc"

\* The handler of request r answered res: with an error the request is over and
\* nothing has changed; otherwise the request is at its call of _save_data.
\* snapshot is the number of writes that had reached the file it loaded.
Begin(r, res, n, op) ==
    IF res.status >= 400 THEN UNCHANGED vars
    ELSE /\ req' = [req EXCEPT ![r] = [pc |-> "save", board |-> res.board,
                                       snapshot |-> Len(order), op |-> op]]
         /\ nextUuid' = n /\ requests' = requests + 1
         /\ UNCHANGED <<file, tmp, lock, order, explicit, last>> /\ PureUnchanged

CanStart(r) == req[r].pc = "idle" /\ requests < MaxStarted

\* json.load of _load_data on a file that is not a whole JSON text raises
\* JSONDecodeError: the request is answered with status 500.
LoadFails(r) ==
    /\ CanStart(r) /\ ~Parse(file).ok
    /\ last' = [op |-> "load", status |-> 500]
    /\ UNCHANGED <<file, tmp, lock, req, order, nextUuid, explicit, requests>>
    /\ PureUnchanged

StartCreateProject(r) ==
    /\ CanStart(r) /\ Parse(file).ok
    /\ \E L \in {Loaded} :
        \E d \in [name : {" a", "b"}, color : {ExplicitColor}, position : {<<>>}] :
            Begin(r, CreateProject(L.board, d, None), L.n, "create_project")

StartUpdateProject(r) ==
    /\ CanStart(r) /\ Parse(file).ok
    /\ \E L \in {Loaded} :
        \E project_idx \in 0..Len(L.board.projects),
           d \in [name : {"a", "b "}, color : {None}, position : {<<>>}] :
            Begin(r, UpdateProject(L.board, project_idx, d), L.n, "update_project")

StartDeleteProject(r) ==
    /\ CanStart(r) /\ Parse(file).ok
    /\ \E L \in {Loaded} :
        \E project_idx \in 0..Len(L.board.projects) :
            Begin(r, DeleteProject(L.board, project_idx), L.n, "delete_project")

StartCreateCard(r) ==
    /\ CanStart(r) /\ Parse(file).ok
    /\ \E L \in {Loaded} :
        \E d \in [title : {"t"}, description : {""}, column : {"todo"},
                  color : {None}, project : {"b"}, links : {NotAList}] :
          \E generated \in ColorDraws(L.board, d.project) :
            Begin(r, CreateCard(L.board, d, L.n, generated), L.n + 1, "create_card")

StartUpdateCard(r) ==
    /\ CanStart(r) /\ Parse(file).ok
    /\ \E L \in {Loaded} :
        \E card_id \in AllCardIds(L.board),
           d \in [column : {None, "done"}, position : {<<>>}, title : {None},
                  description : {None}, color : {None}, links : {NotAList},
                  project : {" a"}] :
            \E generated \in ColorDraws(L.board, d.project) :
                Begin(r, UpdateCard(L.board, card_id, d, generated), L.n, "update_card")

\* import_board: what it hands to _save_data, or the exception of the normalizer.
Imported(board) ==
    [status |-> IF board.raised THEN 500 ELSE 200, board |-> board.board, n |-> board.n]
StartImportReplace(r) ==
    /\ CanStart(r)
    /\ \E payload \in ImportPayloads :
          \E res \in {Imported(NormalizeBoard(payload, nextUuid))} :
              Begin(r, res, res.n, "import")
StartImportMerge(r) ==
    /\ CanStart(r) /\ Parse(file).ok
    /\ \E L \in {Loaded} :
        \E payload \in ImportPayloads :
            \E res \in {Imported(MergeBoards(L.board, payload, L.n))} :
                    Begin(r, res, res.n, "import")

\* (mutant) _save_data enters without the lock.
CanAcquireAlways(holder) == TRUE
\* with _lock: the lock is free.
CanAcquire(holder) == holder = 0

At(r, pc) == req' = [req EXCEPT ![r].pc = pc]
\* History: the write of request r has reached the data file.
Written(r) ==
    order' = Append(order, [r |-> r, op |-> req[r].op, board |-> req[r].board,
                            snapshot |-> req[r].snapshot])

Acquire(r) ==
    /\ req[r].pc = "save" /\ CanAcquire(lock)
    /\ lock' = r /\ At(r, "locked")
    /\ UNCHANGED <<file, tmp, order, nextUuid, explicit, last, requests>> /\ PureUnchanged

\* open(tmp, 'w'), json.dump
WriteTmp(r) ==
    /\ req[r].pc = "locked"
    /\ tmp' = Dump(req[r].board) /\ At(r, "written")
    /\ UNCHANGED <<file, lock, order, nextUuid, explicit, last, requests>> /\ PureUnchanged

\* os.replace(tmp, DATA_FILE)
Replace(r) ==
    /\ req[r].pc = "written"
    /\ file' = tmp /\ tmp' = NoFile /\ Written(r) /\ At(r, "release")
    /\ UNCHANGED <<lock, nextUuid, explicit, last, requests>> /\ PureUnchanged

\* os.replace raises OSError with EXDEV, EBUSY, EACCES or EPERM
ReplaceFailsRecoverable(r) ==
    /\ req[r].pc = "written"
    /\ At(r, "copy")
    /\ UNCHANGED <<file, tmp, lock, order, nextUuid, explicit, last, requests>>
    /\ PureUnchanged

\* os.replace raises another OSError: os.remove(tmp), raise
ReplaceFailsOther(r) ==
    /\ req[r].pc = "written"
    /\ tmp' = NoFile /\ At(r, "release")
    /\ UNCHANGED <<file, lock, order, nextUuid, explicit, last, requests>> /\ PureUnchanged

\* shutil.copyfile(tmp, DATA_FILE) opens DATA_FILE for writing: it is truncated
CopyOpen(r) ==
    /\ req[r].pc = "copy"
    /\ file' = <<>> /\ At(r, "copying")
    /\ UNCHANGED <<tmp, lock, order, nextUuid, explicit, last, requests>> /\ PureUnchanged

\* ... and copies block after block; a block is one or more chunks.
CopyBlock(r) ==
    /\ req[r].pc = "copying" /\ Len(file) < Len(tmp)
    /\ \E k \in 1..(Len(tmp) - Len(file)) :
          /\ file' = SubSeq(tmp, 1, Len(file) + k)
          /\ IF Len(file) + k = Len(tmp) THEN Written(r) /\ At(r, "copied")
             ELSE UNCHANGED <<order, req>>
    /\ UNCHANGED <<tmp, lock, nextUuid, explicit, last, requests>> /\ PureUnchanged

\* os.remove(tmp) after the copy
RemoveTmp(r) ==
    /\ req[r].pc = "copied"
    /\ tmp' = NoFile /\ At(r, "release")
    /\ UNCHANGED <<file, lock, order, nextUuid, explicit, last, requests>> /\ PureUnchanged

\* The end of the with block; the request is answered.
Release(r) ==
    /\ req[r].pc = "release"
    /\ lock' = 0 /\ req' = [req EXCEPT ![r] = [pc |-> "idle"]]
    /\ UNCHANGED <<file, tmp, order, nextUuid, explicit, last, requests>> /\ PureUnchanged

NextConc ==
    \E r \in Threads :
        \/ LoadFails(r)
        \/ StartCreateProject(r) \/ StartUpdateProject(r) \/ StartDeleteProject(r)
        \/ StartCreateCard(r) \/ StartUpdateCard(r)
        \/ StartImportReplace(r) \/ StartImportMerge(r)
        \/ Acquire(r) \/ WriteTmp(r)
        \/ Replace(r) \/ ReplaceFailsRecoverable(r) \/ ReplaceFailsOther(r)
        \/ CopyOpen(r) \/ CopyBlock(r) \/ RemoveTmp(r) \/ Release(r)

SpecConc == InitConc /\ [][NextConc]_vars

-----------------------------------------------------------------------------
(* SpecErrors: the requests of Spec and the imports, handled one after the     *)
(* other, the answers of the failed ones kept in the history.                  *)

InitErrors == StoreIdle /\ PureIdle /\ phase = "errors"

\* import_board, handled whole. The uploaded file is the text of a payload or
\* that text cut short, which json.load refuses (JSONDecodeError, status 400).
ImportBoardReq ==
    /\ requests < MaxRequests
    /\ \E L \in {Loaded} :
        \E payload \in ImportPayloads, cut \in {0, 1}, mode \in {"replace", "merge"} :
            \E upload \in {Parse(SubSeq(Dump(payload), 1, Len(Dump(payload)) - cut))} :
                \E res \in {IF ~upload.ok THEN [status |-> 400, board |-> L.board, n |-> L.n]
                            ELSE IF mode = "replace"
                            THEN Imported(NormalizeBoard(upload.data, L.n))
                            ELSE Imported(MergeBoards(L.board, upload.data, L.n))} :
                    Answered(res, res.n, {}, [op |-> "import", status |-> 200])

NextErrors == Next \/ ImportBoardReq

SpecErrors == InitErrors /\ [][NextErrors]_vars

-----------------------------------------------------------------------------
(* Properties of the entity operations *)

\* The cards of a board, column after column.
RECURSIVE CardsFrom(_, _)
CardsFrom(columns, i) ==
    IF i > Len(columns) THEN <<>> ELSE columns[i].cards \o CardsFrom(columns, i + 1)
AllCards(board) == CardsFrom(board.columns, 1)
ProjectNames(board) == {board.projects[i].name : i \in 1..Len(board.projects)}
\* The data file holds a whole JSON text.
Whole == Parse(file).ok
Distinct(seq) == \A i, j \in 1..Len(seq) : seq[i] = seq[j] => i = j
NamesOf(projects) == [i \in 1..Len(projects) |-> projects[i].name]
IdsOf(cards) == [i \in 1..Len(cards) |-> cards[i].id]

\* C1: in every board persisted by the requests of the two threads, however
\* they interleave (create_project, update_project, create_card and update_card
\* with a project, delete_project, import in both modes), no two projects have
\* the same name.
C1_ProjectNamesUnique ==
    phase = "conc" /\ Whole => Distinct(NamesOf(Parse(file).data.projects))

\* C1 (witness): two requests loaded the same file and both wrote; the board
\* of the second, an import whose file names a project twice, has projects.
C1_Witness ==
    /\ phase = "conc" /\ Whole /\ Len(order) = 2
    /\ order[1].snapshot = 0 /\ order[2].snapshot = 0 /\ order[1].r # order[2].r
    /\ order[2].op = "import" /\ order[1].op # "import"
    /\ file = Dump(order[2].board)
    /\ Len(Parse(file).data.projects) >= 2

\* C3: in every board persisted by the requests, import in both modes among
\* them, no two cards of the board, of one column or of two, have the same id.
C3_CardIdsUniqueAcrossBoard ==
    phase = "conc" /\ Whole => Distinct(IdsOf(AllCards(Board)))

\* What the data file may hold if no partial write is visible: the board it
\* started with or a board that a request handed to _save_data.
C4_WholeBoards ==
    {Dump(DEFAULT_BOARD)} \cup {Dump(order[i].board) : i \in 1..Len(order)}

\* C4: at every step of a _save_data, on the replace path and on the copy
\* path, the data file that a _load_data would read is a whole board, the old
\* one or the new one.
C4_NoPartialFileVisible == phase = "conc" => Whole /\ file \in C4_WholeBoards

InCritical(r) == req[r].pc \in {"locked", "written", "copy", "copying", "copied", "release"}
C5_Mutex == \A r1, r2 \in Threads : InCritical(r1) /\ InCritical(r2) => r1 = r2
\* The last two writes came from requests that loaded the same file.
C5_SameSnapshot ==
    Len(order) >= 2 /\ order[Len(order)].snapshot = order[Len(order) - 1].snapshot

\* C5: two requests are never inside the critical section of _save_data
\* together; when two requests have loaded the same file and both have written,
\* the data file holds the board of the one that wrote last, computed from the
\* file it loaded, without the change of the other.
C5_LastWriterWins ==
    phase = "conc" =>
        /\ C5_Mutex
        /\ C5_SameSnapshot /\ (\A r \in Threads : req[r].pc # "copying") =>
              file = Dump(order[Len(order)].board)

\* C5 (witness): two requests loaded the first file and both wrote, one after
\* the other; a project of the first writer's board is not on the board that
\* is persisted.
C5_Witness ==
    /\ phase = "conc" /\ lock = 0 /\ \A r \in Threads : req[r].pc = "idle"
    /\ Len(order) = 2 /\ C5_SameSnapshot /\ order[1].r # order[2].r
    /\ file = Dump(order[2].board)
    /\ \E name \in ProjectNames(order[1].board) : name \notin ProjectNames(Board)

\* C2: after any sequence of entity operations from the default board, every
\* card of the loaded board that has a project has the color of that project,
\* and every card without a project whose color no request has given has the
\* default color.
C2_CardColorFollowsProject ==
    phase = "entities" =>
        \A i \in 1..Len(AllCards(Board)) :
            LET card == AllCards(Board)[i] IN
            /\ card.project # None =>
                  \E k \in 1..Len(Board.projects) :
                      /\ Board.projects[k].name = card.project
                      /\ Board.projects[k].color = card.color
            /\ card.project = None /\ card.id \notin explicit =>
                  card.color = DEFAULT_CARD_COLOR

\* C2 (witness): a project was recolored and a card of it, whose color no
\* request has given, has the new color, next to a card without project.
C2_Witness ==
    /\ phase = "entities" /\ last.op = "update_project"
    /\ \E i \in 1..Len(AllCards(Board)) :
          /\ AllCards(Board)[i].project # None
          /\ AllCards(Board)[i].color = ExplicitColor
          /\ AllCards(Board)[i].id \notin explicit

\* What delete_project leaves of a card.
C9_Stripped(card, name) ==
    IF card.project = name
    THEN [card EXCEPT !.project = None, !.color = DEFAULT_CARD_COLOR] ELSE card
C9_ProjectsExist(board) ==
    \A i \in 1..Len(AllCards(board)) :
        AllCards(board)[i].project # None =>
            AllCards(board)[i].project \in ProjectNames(board)
C9_DeleteStrips(before, after, project_idx) ==
    /\ after.projects = RemoveAt(before.projects, project_idx)
    /\ Len(after.columns) = Len(before.columns)
    /\ \A i \in 1..Len(before.columns) :
          /\ Len(after.columns[i].cards) = Len(before.columns[i].cards)
          /\ \A j \in 1..Len(before.columns[i].cards) :
                after.columns[i].cards[j] =
                    C9_Stripped(before.columns[i].cards[j],
                                before.projects[project_idx + 1].name)
C9_Holds(board) ==
    /\ C9_ProjectsExist(board)
    /\ last.op = "delete_project" => C9_DeleteStrips(last.before, board, last.project_idx)

\* C9: after any sequence of entity operations from the default board, the
\* project of every card that has one is the name of a project of the board;
\* delete_project takes the project from every card that names it, gives the
\* card the default color, and deletes no card.
C9_CardProjectsExist == phase = "entities" => C9_Holds(Board)

C9_WitnessOn(before, after, name) ==
    /\ \E i \in 1..Len(AllCards(before)) : AllCards(before)[i].project = name
    /\ \A i \in 1..Len(AllCards(before)) :
          AllCards(before)[i].project = name =>
              /\ AllCards(after)[i].id = AllCards(before)[i].id
              /\ AllCards(after)[i].project = None
              /\ AllCards(after)[i].color = DEFAULT_CARD_COLOR
\* C9 (witness): a project that cards name was deleted; the cards are there,
\* without project and with the default color.
C9_Witness ==
    /\ phase = "entities" /\ last.op = "delete_project"
    /\ C9_WitnessOn(last.before, Board, last.before.projects[last.project_idx + 1].name)

C10_Ids(columns) == {columns[i].id : i \in 1..Len(columns)}
\* delete_column with a move_to that names another column of the board
C10_Moves(before, after, idx, target) ==
    /\ Len(after.columns) = Len(before.columns) - 1
    /\ before.columns[idx].id \notin C10_Ids(after.columns)
    /\ \E t \in 1..Len(after.columns) : after.columns[t].id = before.columns[target].id
    /\ \A t \in 1..Len(after.columns) :
          IF after.columns[t].id = before.columns[target].id
          THEN /\ after.columns[t].cards =
                      before.columns[target].cards \o before.columns[idx].cards
               /\ Len(after.columns[t].cards) =
                      Len(before.columns[target].cards) + Len(before.columns[idx].cards)
          ELSE \E i \in 1..Len(before.columns) : after.columns[t] = before.columns[i]
    /\ Len(AllCards(after)) = Len(AllCards(before))
\* delete_column with no move_to, or with one that names no other column
C10_Discards(before, after, idx) ==
    /\ after.columns = RemoveAt(before.columns, idx - 1)
    /\ before.columns[idx].id \notin C10_Ids(after.columns)
    /\ Len(AllCards(after)) = Len(AllCards(before)) - Len(before.columns[idx].cards)
C10_Step(before, after, col_id, move_to) ==
    IF move_to # None /\ move_to # col_id /\ move_to \in C10_Ids(before.columns)
    THEN C10_Moves(before, after, FirstIndex(before.columns, col_id),
                   FirstIndex(before.columns, move_to))
    ELSE C10_Discards(before, after, FirstIndex(before.columns, col_id))

\* C10: delete_column on a column of the board, with a move_to that names
\* another column of the board, appends the cards of the deleted column, in
\* their order, to the cards of that column: its card count grows by the deleted
\* column's, the card count of the board stays, and the deleted id is gone from
\* the columns. With no move_to, or one that names no column or the deleted
\* column itself, the cards go with the column.
C10_DeleteColumnMovesCards ==
    last.op = "delete_column" => C10_Step(last.before, Board, last.col_id, last.move_to)

C10_WitnessOn(before, idx, target) ==
    idx # 0 /\ target # 0 /\ target # idx
    /\ before.columns[idx].cards # <<>> /\ before.columns[target].cards # <<>>
\* C10 (witness): a column with cards was deleted onto a column that had cards.
C10_Witness ==
    /\ last.op = "delete_column"
    /\ C10_WitnessOn(last.before, FirstIndex(last.before.columns, last.col_id),
                     MoveTarget(last.before.columns, last.move_to))

-----------------------------------------------------------------------------
(* Claims on update_card (SpecMoves) *)

C11_Others(cards, card_id) == SelectSeq(cards, LAMBDA card : card.id # card_id)
C11_Places(board, card_id) ==
    {<<c, j>> \in (1..Len(board.columns)) \X (1..Max(1, Len(AllCards(board)))) :
        /\ j <= Len(board.columns[c].cards)
        /\ board.columns[c].cards[j].id = card_id}
\* The given position clamped to [0, length]; the end when it is omitted.
C11_Clamped(position, length) ==
    IF position = <<>> THEN length
    ELSE IF position[1] < 0 THEN 0
    ELSE IF position[1] > length THEN length
    ELSE position[1]
\* Where the card is to be afterwards: <<column, index>>, counted from 1.
C11_Expected(before, card_id, column, position) ==
    IF column # None
    THEN <<FirstIndex(before.columns, column),
           C11_Clamped(position,
                       Len(C11_Others(before.columns[FirstIndex(before.columns, column)].cards,
                                      card_id))) + 1>>
    ELSE <<CardColumn(before, card_id),
           FirstIndex(before.columns[CardColumn(before, card_id)].cards, card_id)>>
C11_Step(before, after, card_id, column, position) ==
    /\ Len(after.columns) = Len(before.columns)
    /\ C11_Places(after, card_id) = {C11_Expected(before, card_id, column, position)}
    /\ Len(AllCards(after)) = Len(AllCards(before))
    /\ \A c \in 1..Len(before.columns) :
          /\ after.columns[c].id = before.columns[c].id
          /\ C11_Others(after.columns[c].cards, card_id)
                = C11_Others(before.columns[c].cards, card_id)

-----------------------------------------------------------------------------
(* Claims on the failed requests (SpecErrors) *)

C12_Failed(op) == last.op = "error" /\ last.of = op /\ last.status \in {400, 404}
C12_ProjectsOf(board) == {board.projects[i] : i \in 1..Len(board.projects)}

\* C12: a request answered with an error (400 or 404) leaves the persisted
\* board as it was: the data file is the one the request found. So a card that
\* update_card took out of its column before it missed the target column is
\* still there, a project that update_card or create_card appended before it
\* missed the column is not persisted, nor is the card create_card built;
\* update_project with an empty or a taken name and an import of a file that
\* is not JSON change nothing.
C12_ErrorsChangeNothing ==
    phase = "errors" /\ last.op = "error" /\ last.status \in {400, 404} =>
        /\ file = last.file
        /\ C12_Failed("update_card") \/ C12_Failed("create_card") =>
              /\ Len(AllCards(Board)) >= Len(AllCards(last.board))
              /\ C12_ProjectsOf(Board) \subseteq C12_ProjectsOf(last.board)
        /\ C12_Failed("update_project") \/ C12_Failed("import") => Board = last.board

\* C12 witness: update_card missed its target column after it had taken the
\* card out of its column and appended a project; the persisted board has the
\* card and has not the project.
C12_Witness ==
    /\ phase = "errors" /\ C12_Failed("update_card")
    /\ Len(AllCards(last.board)) + 1 = Len(AllCards(Board))
    /\ Len(last.board.projects) = Len(Board.projects) + 1
    /\ file = last.file

-----------------------------------------------------------------------------
(* SpecNormalize: _normalize_board on documents built from malformed and        *)
(* well-formed pieces, applied once and then again to its own result.           *)

MaxRawItems == 5

RawCard(id, title, project, color, links) ==
    [id |-> id, title |-> title, description |-> None, links |-> links,
     project |-> project, color |-> color]
RawCards ==
    { NonDict,
      RawCard("x", " t ", " a", None, NotAList),
      RawCard("x", None, None, "#00ff00", <<[text |-> None, url |-> " u "], NonDict>>),
      RawCard(None, Num, "", "", <<[text |-> "t", url |-> " "]>>),
      RawCard(Num, "t", Num, None, NotAList) }
RawColumns ==
    { NonDict,
      [id |-> "k", title |-> " t ", color |-> None, hidden |-> FALSE, cards |-> <<>>],
      [id |-> None, title |-> None, color |-> Num, hidden |-> TRUE, cards |-> <<>>],
      [id |-> "k", title |-> "t", color |-> "#00ff00", hidden |-> FALSE,
       cards |-> NotAList] }
RawProjects ==
    { NonDict,
      [name |-> " a", color |-> None],
      [name |-> "a ", color |-> "#00ff00"],
      [name |-> " ", color |-> ""],
      [name |-> Num, color |-> None] }
RawDocuments ==
    { NonDict,
      [columns |-> NotAList, projects |-> NotAList],
      [columns |-> <<>>, projects |-> <<>>] }

RECURSIVE SumCards(_)
SumCards(cols) ==
    IF cols = <<>> THEN 0
    ELSE (IF IsDict(Head(cols)) /\ IsList(Head(cols).cards)
          THEN Len(Head(cols).cards) ELSE 0) + SumCards(Tail(cols))
RawItems(doc) ==
    IF ~IsDict(doc) THEN 0
    ELSE (IF IsList(doc.columns) THEN Len(doc.columns) + SumCards(doc.columns) ELSE 0)
         + (IF IsList(doc.projects) THEN Len(doc.projects) ELSE 0)

InitNormalize ==
    /\ StoreIdle
    /\ raw \in RawDocuments /\ incoming = NonDict /\ out = <<>> /\ phase = "build"

CanGrow(doc) == IsDict(doc) /\ RawItems(doc) < MaxRawItems

AddRawColumn ==
    /\ phase = "build" /\ CanGrow(raw) /\ IsList(raw.columns)
    /\ \E col \in RawColumns : raw' = [raw EXCEPT !.columns = Append(@, col)]
    /\ UNCHANGED <<incoming, out, phase>> /\ StoreUnchanged

AddRawCard ==
    /\ phase = "build" /\ CanGrow(raw) /\ IsList(raw.columns) /\ raw.columns # <<>>
    /\ LET k == Len(raw.columns) IN
       /\ IsDict(raw.columns[k]) /\ IsList(raw.columns[k].cards)
       /\ \E card \in RawCards :
            raw' = [raw EXCEPT !.columns[k].cards = Append(@, card)]
    /\ UNCHANGED <<incoming, out, phase>> /\ StoreUnchanged

AddRawProject ==
    /\ phase = "build" /\ CanGrow(raw) /\ IsList(raw.projects)
    /\ \E proj \in RawProjects : raw' = [raw EXCEPT !.projects = Append(@, proj)]
    /\ UNCHANGED <<incoming, out, phase>> /\ StoreUnchanged

NormalizeOnce ==
    /\ phase = "build"
    /\ out' = <<NormalizeBoard(raw, 1)>>
    /\ phase' = "once"
    /\ UNCHANGED <<raw, incoming>> /\ StoreUnchanged

NormalizeAgain ==
    /\ phase = "once" /\ ~out[1].raised
    /\ out' = Append(out, NormalizeBoard(out[1].board, out[1].n))
    /\ phase' = "twice"
    /\ UNCHANGED <<raw, incoming>> /\ StoreUnchanged

NextNormalize ==
    \/ AddRawColumn \/ AddRawCard \/ AddRawProject \/ NormalizeOnce \/ NormalizeAgain

SpecNormalize == InitNormalize /\ [][NextNormalize]_vars

-----------------------------------------------------------------------------
(* SpecMerge: _merge_boards on two documents built column by column.           *)

MaxMergeItems == 5

MergeColumnOf(side, id) ==
    [id |-> id, title |-> IF side = "existing" THEN "Old" ELSE "New",
     color |-> IF side = "existing" THEN "#1f77b4" ELSE None,
     hidden |-> side = "incoming", cards |-> <<>>]
MergeCardOf(id) ==
    [id |-> id, title |-> "t", description |-> "", links |-> <<>>,
     project |-> None, color |-> DEFAULT_CARD_COLOR]
MergeProjectsOf(side) ==
    IF side = "existing" THEN {[name |-> "a", color |-> "#00ff00"]}
    ELSE {[name |-> "a", color |-> None], [name |-> "a", color |-> "#ff0000"],
          [name |-> "b", color |-> None]}

InitMerge ==
    /\ StoreIdle
    /\ raw = [columns |-> <<>>, projects |-> <<>>]
    /\ incoming = [columns |-> <<>>, projects |-> <<>>]
    /\ out = <<>> /\ phase = "build"

MergeCanGrow == phase = "build" /\ RawItems(raw) + RawItems(incoming) < MaxMergeItems
Grown(side, doc) ==
    /\ IF side = "existing" THEN raw' = doc /\ UNCHANGED incoming
       ELSE incoming' = doc /\ UNCHANGED raw
    /\ UNCHANGED <<out, phase>> /\ StoreUnchanged
SideDoc(side) == IF side = "existing" THEN raw ELSE incoming

MergeAddColumn ==
    /\ MergeCanGrow
    /\ \E side \in {"existing", "incoming"}, id \in {"k", "m"} :
         Grown(side, [SideDoc(side) EXCEPT !.columns = Append(@, MergeColumnOf(side, id))])

MergeAddCard ==
    /\ MergeCanGrow
    /\ \E side \in {"existing", "incoming"}, id \in {"x", "y"} :
         /\ SideDoc(side).columns # <<>>
         /\ Grown(side, [SideDoc(side) EXCEPT
                           !.columns[Len(SideDoc(side).columns)].cards =
                               Append(@, MergeCardOf(id))])

MergeAddProject ==
    /\ MergeCanGrow
    /\ \E side \in {"existing", "incoming"} : \E proj \in MergeProjectsOf(side) :
         Grown(side, [SideDoc(side) EXCEPT !.projects = Append(@, proj)])

Merge ==
    /\ phase = "build"
    /\ out' = <<MergeBoards(raw, incoming, 1)>>
    /\ phase' = "merged"
    /\ UNCHANGED <<raw, incoming>> /\ StoreUnchanged

NextMerge == MergeAddColumn \/ MergeAddCard \/ MergeAddProject \/ Merge

SpecMerge == InitMerge /\ [][NextMerge]_vars

-----------------------------------------------------------------------------
(* Claims on the normalizer (SpecNormalize) *)

\* C6: for every malformed input (null, non-object, missing keys, wrong-typed
\* fields such as a non-string card project or a non-string project name),
\* normalize never raises and returns an object whose columns and projects are
\* sequences.
C6_NormalizeNeverRaises ==
    phase = "once" =>
        /\ ~out[1].raised
        /\ IsList(out[1].board.columns) /\ IsList(out[1].board.projects)

\* C7: normalize is idempotent: normalizing the result of normalize gives the
\* same board, also when the first pass regenerated colliding card ids and
\* dropped projects of a duplicate name.
C7_NormalizeIdempotent ==
    phase = "twice" => ~out[2].raised /\ out[2].board = out[1].board

\* C7 witness: a document with two cards of one id in a column and two projects
\* of one name was normalized twice; the first pass regenerated the second id
\* and kept one project.
C7_Witness ==
    /\ phase = "twice" /\ IsDict(raw)
    /\ IsList(raw.columns) /\ Len(raw.columns) = 1 /\ IsDict(raw.columns[1])
    /\ IsList(raw.columns[1].cards) /\ Len(raw.columns[1].cards) = 2
    /\ IsDict(raw.columns[1].cards[1]) /\ IsDict(raw.columns[1].cards[2])
    /\ raw.columns[1].cards[1].id = "x" /\ raw.columns[1].cards[2].id = "x"
    /\ Len(out[1].board.columns[1].cards) = 2
    /\ out[1].board.columns[1].cards[1].id = "x"
    /\ out[1].board.columns[1].cards[2].id = Uuid(1)
    /\ IsList(raw.projects) /\ Len(raw.projects) = 2
    /\ Len(out[1].board.projects) = 1

-----------------------------------------------------------------------------
(* Claims on the merger (SpecMerge) *)

ColumnIds(cols) == {cols[i].id : i \in 1..Len(cols)}
DistinctColumnIds(cols) ==
    \A i, j \in 1..Len(cols) : cols[i].id = cols[j].id => i = j
CardIds(cards) == {cards[i].id : i \in 1..Len(cards)}
\* The two boards of a finished merge, normalized as _merge_boards takes them.
MergedExisting == NormalizeBoard(raw, 1).board
MergedIncoming == NormalizeBoard(incoming, NormalizeBoard(raw, 1).n).board

\* C8 (as claimed): when no column id of incoming occurs in existing, the result
\* has as many columns as both boards together; when every column id of
\* incoming occurs in existing, the result has as many columns as existing and
\* each matched column's cards are existing's cards followed by the incoming
\* column's cards.
C8_MergeColumnCounts ==
    phase = "merged" =>
      LET E == MergedExisting.columns
          I == MergedIncoming.columns
          R == out[1].board.columns
      IN /\ ColumnIds(I) \cap ColumnIds(E) = {}
              => Len(R) = Len(E) + Len(I)
         /\ ColumnIds(I) \subseteq ColumnIds(E)
              => /\ Len(R) = Len(E)
                 /\ \A i \in 1..Len(E), j \in 1..Len(I) :
                       E[i].id = I[j].id => R[i].cards = E[i].cards \o I[j].cards

\* C8 (amended): the same for two boards whose column ids are pairwise distinct
\* within each board, an incoming card whose id is already in the matched
\* column being appended under a fresh id instead of its own.
C8_MergeColumnCountsDistinctIds ==
    phase = "merged" =>
      LET E == MergedExisting.columns
          I == MergedIncoming.columns
          R == out[1].board.columns
      IN DistinctColumnIds(E) /\ DistinctColumnIds(I) =>
         /\ ~out[1].raised
         /\ ColumnIds(I) \cap ColumnIds(E) = {}
              => Len(R) = Len(E) + Len(I)
         /\ ColumnIds(I) \subseteq ColumnIds(E)
              => /\ Len(R) = Len(E)
                 /\ \A i \in 1..Len(E), j \in 1..Len(I) :
                       E[i].id = I[j].id =>
                         /\ Len(R[i].cards) = Len(E[i].cards) + Len(I[j].cards)
                         /\ SubSeq(R[i].cards, 1, Len(E[i].cards)) = E[i].cards
                         /\ \A p \in 1..Len(I[j].cards) :
                              LET got == R[i].cards[Len(E[i].cards) + p]
                                  before == CardIds(SubSeq(R[i].cards, 1,
                                                           Len(E[i].cards) + p - 1))
                              IN /\ [got EXCEPT !.id = I[j].cards[p].id] = I[j].cards[p]
                                 /\ got.id \notin before
                                 /\ I[j].cards[p].id \notin before
                                      => got.id = I[j].cards[p].id

\* C8 witness: a merge of an incoming column into the existing column of the
\* same id, both holding a card of id "x"; the incoming card got a fresh id.
C8_Witness ==
    /\ phase = "merged"
    /\ DistinctColumnIds(raw.columns) /\ DistinctColumnIds(incoming.columns)
    /\ Len(raw.columns) = 1 /\ Len(incoming.columns) = 1
    /\ raw.columns[1].id = incoming.columns[1].id
    /\ CardIds(raw.columns[1].cards) = {"x"} /\ CardIds(incoming.columns[1].cards) = {"x"}
    /\ Len(out[1].board.columns) = 1
    /\ Len(out[1].board.columns[1].cards) = 2
    /\ out[1].board.columns[1].cards[2].id # "x"

====
